---- MODULE Spec2Model ----
(***************************************************************************)
(* dp-cache: the refresh engine of cache.go.                               *)
(*                                                                         *)
(* One Cache instance: the store (data, a sync.Map), the registry of       *)
(* refresh functions (UpdateFuncs, a plain Go map), the unbuffered stop    *)
(* channel (close), the host's error channel, the governing context, the   *)
(* goroutines spawned by StartUpdates and the host threads that call the   *)
(* exported methods.  Blocking channel operations split a method into      *)
(* steps: a call, each iteration of the range loop of UpdateContent, the   *)
(* stop handoff, the reset Close performs after it, and each return are    *)
(* steps of their own.                                                     *)
(***************************************************************************)
EXTENDS Integers, Sequences, FiniteSets, TLC

VARIABLES
    newErr,       \* error returned by NewCache ("" = nil, the engine exists)
    config,       \* Cache.config: [UpdateInterval], <<>> = nil pointer, <<d>> = &d
    data,         \* Cache.data: function from the keys present to their values
    UpdateFuncs,  \* Cache.UpdateFuncs: function from registered keys to refresh functions
    pc,           \* position of every host thread and goroutine
    op,           \* exported method a host thread is executing ("" = none)
    uc,           \* locals of the call in progress (range loop of UpdateContent, Close)
    tick,         \* ticker.C of each goroutine holds a tick (buffer of one)
    ctxDone,      \* ctx.Done() is closed
    errCap,       \* capacity of the error channel the host passed
    errs,         \* buffer of the error channel
    crashed,      \* the runtime threw "concurrent map iteration and map write"
    calls,        \* calls of exported methods made so far (bounded by MaxCalls)
    ticks,        \* ticks delivered so far (bounded by MaxTicks)
    cycles,       \* calls of UpdateContent the goroutines have begun so far
    late          \* goroutines whose buffered tick fired after ctx was cancelled

vars == <<newErr, config, data, UpdateFuncs, pc, op, uc, tick, ctxDone, errCap, errs, crashed,
          calls, ticks, cycles, late>>

----------------------------------------------------------------------------
(* Bounds of the model *)

MaxTasks == 2     \* goroutines StartUpdates may spawn in one run
NumHosts == 1     \* host threads calling the exported methods
MaxCalls == 5     \* calls of exported methods in one run
MaxTicks == 2     \* ticks delivered in one run

Keys == {"a", "b"}
Hosts == {<<"host", i>> : i \in 1..NumHosts}
Tasks == {<<"task", i>> : i \in 1..MaxTasks}
Procs == Hosts \cup Tasks

Nil == "nil"                 \* Go nil interface value
NoErr == <<>>                \* Go nil error
Empty == ""                  \* the value Close stores
SetValues == {"v1"}          \* values host threads pass to Set
Values == {Empty, "v1", "v2", "v3"}
Funcs == {"next", "bad"}     \* refresh functions the host registers
ErrCaps == {0, 1}            \* make(chan error) and make(chan error, 1)
Intervals == {<<>>, <<0 - 1>>, <<0>>, <<1>>}   \* *time.Duration: nil, -1, 0, 1

EmptyMap == [k \in {} |-> Nil]

----------------------------------------------------------------------------
(* Construction *)

\* Mutant of NewCache: an interval of zero is accepted
NewCache_ZeroAllowed(cfg) ==
    IF cfg.UpdateInterval # <<>> /\ cfg.UpdateInterval[1] < 0
    THEN [err |-> "cache update interval duration is less than or equal to 0",
          data |-> EmptyMap, UpdateFuncs |-> EmptyMap]
    ELSE [err |-> "", data |-> EmptyMap, UpdateFuncs |-> EmptyMap]

\* NewCache: the error and no Cache for an interval that is set and not
\* positive, else a Cache with an empty sync.Map and an empty registry
NewCache(cfg) ==
    IF cfg.UpdateInterval # <<>> /\ cfg.UpdateInterval[1] <= 0
    THEN [err |-> "cache update interval duration is less than or equal to 0",
          data |-> EmptyMap, UpdateFuncs |-> EmptyMap]
    ELSE [err |-> "", data |-> EmptyMap, UpdateFuncs |-> EmptyMap]

----------------------------------------------------------------------------
(* Store *)

Get(key) == IF key \in DOMAIN data THEN <<data[key], TRUE>> ELSE <<Nil, FALSE>>

Load(d, key) == IF key \in DOMAIN d THEN <<d[key], TRUE>> ELSE <<Nil, FALSE>>

Store(d, key, value) ==
    [k \in DOMAIN d \cup {key} |-> IF k = key THEN value ELSE d[k]]

StoreAll(d, ks, value) ==
    [k \in DOMAIN d \cup ks |-> IF k \in ks THEN value ELSE d[k]]

----------------------------------------------------------------------------
(* Refresh functions supplied by the host *)

\* "next" reads its own key like the functions of getTestCache: the first
\* update of a freshly set value gives v2, any later one v3.  "bad" fails.
CallUpdateFunc(fn, key, d) ==
    IF fn = "bad"
    THEN [val |-> Nil, err |-> "unexpected error"]
    ELSE LET got == Load(d, key)
         IN  [val |-> IF got[2] /\ got[1] = "v1" THEN "v2" ELSE "v3", err |-> ""]

\* Mutant of Errorf: the key is left out of the text
Errorf_NoKey(key, cause) == <<"failed to update search cache for ", "", ". error: ", cause>>

\* fmt.Errorf("failed to update search cache for %s. error: %v", key, err)
Errorf(key, cause) == <<"failed to update search cache for ", key, ". error: ", cause>>

----------------------------------------------------------------------------
(* Locals of a call *)

\*   m     the map object the call ranges over (for Close: the registry at the call)
\*   todo  the entries the range loop has not produced yet
\*   cur   m is still the map object dc.UpdateFuncs refers to
\*   res   what each refresh function called so far returned
\*   err   the error UpdateContent returns
\*   clean no other thread has written the store or the registry since
NoCall == [m |-> EmptyMap, todo |-> {}, cur |-> FALSE, res |-> EmptyMap,
           err |-> NoErr, clean |-> TRUE]

\* for key, updateFunc := range dc.UpdateFuncs: the map is evaluated once
RangeBegin(funcs) == [m |-> funcs, todo |-> DOMAIN funcs, cur |-> TRUE,
                      res |-> EmptyMap, err |-> NoErr, clean |-> TRUE]

InCall(p) == pc[p] \in {"UC", "UCRet", "SendErr", "CloseSend", "CloseReset", "CloseRet",
                         "StartRet"}

\* p has written the store or the registry: every other call in progress
\* has had a concurrent writer.
Disturb(u, p) ==
    [q \in Procs |-> IF q # p /\ InCall(q) THEN [u[q] EXCEPT !.clean = FALSE] ELSE u[q]]

Alive == newErr = "" /\ ~crashed

\* A host thread that is in no call makes its next call
Call(h) ==
    /\ Alive /\ h \in Hosts /\ pc[h] = "idle"
    /\ calls < MaxCalls
    /\ calls' = calls + 1

Init ==
    /\ config \in [UpdateInterval : Intervals]
    /\ newErr = NewCache(config).err
    /\ data = NewCache(config).data
    /\ UpdateFuncs = NewCache(config).UpdateFuncs
    /\ pc = [p \in Procs |-> IF p \in Hosts THEN "idle" ELSE "none"]
    /\ op = [h \in Hosts |-> ""]
    /\ uc = [p \in Procs |-> NoCall]
    /\ tick = [t \in Tasks |-> FALSE]
    /\ ctxDone = FALSE
    /\ errCap \in ErrCaps
    /\ errs = <<>>
    /\ crashed = FALSE
    /\ calls = 0
    /\ ticks = 0
    /\ cycles = 0
    /\ late = {}

----------------------------------------------------------------------------
(* Store.Set *)

\* Mutant of Set: the value is stored under every key of the store as well
Set_AllKeys(h, key, value) ==
    /\ Call(h)
    /\ data' = StoreAll(data, DOMAIN data \cup {key}, value)
    /\ uc' = Disturb(uc, h)
    /\ UNCHANGED <<newErr, config, UpdateFuncs, pc, op, tick, ctxDone, errCap, errs, crashed, ticks, cycles, late>>

\* Cache.Set called by a host thread
Set(h, key, value) ==
    /\ Call(h)
    /\ data' = Store(data, key, value)
    /\ uc' = Disturb(uc, h)
    /\ UNCHANGED <<newErr, config, UpdateFuncs, pc, op, tick, ctxDone, errCap, errs, crashed, ticks, cycles, late>>

----------------------------------------------------------------------------
(* Registry *)

\* The range loops that are iterating the map object AddUpdateFunc writes
Racing(h) == {q \in Procs \ {h} : pc[q] = "UC" /\ uc[q].cur}

\* A range loop that observes the write of key: an entry not produced yet
\* is produced with the new function.
SeeWrite(u, key, fn) ==
    [u EXCEPT !.m = Store(u.m, key, fn),
              !.todo = IF key \in DOMAIN u.res THEN u.todo ELSE u.todo \cup {key}]

\* Mutant of AddUpdateFunc: the registry is replaced by the new entry alone
AddUpdateFunc_Clear(h, key, fn) ==
    /\ Call(h)
    /\ UpdateFuncs' = Store(EmptyMap, key, fn)
    /\ uc' = Disturb(uc, h)
    /\ UNCHANGED <<newErr, config, data, pc, op, tick, ctxDone, errCap, errs, crashed, ticks, cycles, late>>

\* Mutant of AddUpdateFunc: the write waits until no range loop is on the map
AddUpdateFunc_Locked(h, key, fn) ==
    /\ Call(h)
    /\ Racing(h) = {}
    /\ UpdateFuncs' = Store(UpdateFuncs, key, fn)
    /\ uc' = Disturb(uc, h)
    /\ UNCHANGED <<newErr, config, data, pc, op, tick, ctxDone, errCap, errs, crashed, ticks, cycles, late>>

\* Cache.AddUpdateFunc: an unsynchronized map write.  With a range loop of
\* another goroutine on the same map it is a data race: each loop observes
\* the write or not, or the runtime throws.
AddUpdateFunc(h, key, fn) ==
    /\ Call(h)
    /\ UpdateFuncs' = Store(UpdateFuncs, key, fn)
    /\ \/ /\ \E S \in SUBSET Racing(h) :
                uc' = Disturb([q \in Procs |-> IF q \in S THEN SeeWrite(uc[q], key, fn)
                                                           ELSE uc[q]], h)
          /\ UNCHANGED crashed
       \/ /\ Racing(h) # {}
          /\ crashed' = TRUE
          /\ uc' = Disturb(uc, h)
    /\ UNCHANGED <<newErr, config, data, pc, op, tick, ctxDone, errCap, errs, ticks, cycles, late>>

----------------------------------------------------------------------------
(* UpdateContent *)

\* Entry of UpdateContent: the range expression is evaluated; an empty map
\* ends the loop at once.
EnterUpdateContent(p) ==
    /\ uc' = [uc EXCEPT ![p] = RangeBegin(UpdateFuncs)]
    /\ pc' = [pc EXCEPT ![p] = IF DOMAIN UpdateFuncs = {} THEN "UCRet" ELSE "UC"]

\* Cache.UpdateContent called directly by a host thread
UpdateContent(h) ==
    /\ Call(h)
    /\ EnterUpdateContent(h)
    /\ op' = [op EXCEPT ![h] = "UpdateContent"]
    /\ UNCHANGED <<newErr, config, data, UpdateFuncs, tick, ctxDone, errCap, errs, crashed, ticks, cycles, late>>

\* Mutant of SetContent: the result is dropped
SetContent_Skip(d, key, updatedContent) == d

\* dc.Set(key, updatedContent)
SetContent(d, key, updatedContent) == Store(d, key, updatedContent)

\* Mutant of ContentOnError: the nil result is stored before the error is checked
ContentOnError_StoreNil(d, key, r) == Store(d, key, r.val)

\* if err != nil { return ... }: the store is as it was, Set is not reached
ContentOnError(d, key, r) == d

\* Mutant of Remaining: the entry just produced is produced again
Remaining_Again(todo, key) == todo

\* The entries left to the loop once key has been produced
Remaining(todo, key) == todo \ {key}

\* Mutant of AfterIteration: an error does not end the loop
AfterIteration_Continue(left, failed) == IF left = {} THEN "UCRet" ELSE "UC"

\* Where the loop is after an iteration: return on an error (if err != nil)
\* and when no entry is left, else the next iteration
AfterIteration(left, failed) == IF failed \/ left = {} THEN "UCRet" ELSE "UC"

\* One iteration of the range loop: the map yields any entry not produced
\* yet, its function is called, a failure returns the wrapped error and a
\* success is stored.
UpdateContentStep(p) ==
    /\ Alive /\ pc[p] = "UC"
    /\ \E key \in uc[p].todo :
         LET r == CallUpdateFunc(uc[p].m[key], key, data)
             left == Remaining(uc[p].todo, key)
             seen == Store(uc[p].res, key, r)
         IN  IF r.err # ""
             THEN /\ uc' = [uc EXCEPT ![p].res = seen, ![p].todo = left,
                                      ![p].err = Errorf(key, r.err)]
                  /\ pc' = [pc EXCEPT ![p] = AfterIteration(left, TRUE)]
                  /\ data' = ContentOnError(data, key, r)
             ELSE /\ data' = SetContent(data, key, r.val)
                  /\ uc' = Disturb([uc EXCEPT ![p].res = seen, ![p].todo = left], p)
                  /\ pc' = [pc EXCEPT ![p] = AfterIteration(left, FALSE)]
    /\ UNCHANGED <<newErr, config, UpdateFuncs, op, tick, ctxDone, errCap, errs, crashed, calls, ticks, cycles, late>>

----------------------------------------------------------------------------
(* Close *)

\* Mutant of EnterClose: without an interval the send is skipped, the reset is not
EnterClose_ResetAlways(h) ==
    /\ uc' = [uc EXCEPT ![h] = [NoCall EXCEPT !.m = UpdateFuncs, !.cur = TRUE]]
    /\ pc' = [pc EXCEPT ![h] = IF config.UpdateInterval # <<>> THEN "CloseSend" ELSE "CloseReset"]

\* Mutant of EnterClose: the interval is not checked
EnterClose_NoIntervalCheck(h) ==
    /\ uc' = [uc EXCEPT ![h] = [NoCall EXCEPT !.m = UpdateFuncs, !.cur = TRUE]]
    /\ pc' = [pc EXCEPT ![h] = "CloseSend"]

\* Entry of Close: with an interval the caller waits at the send on the
\* unbuffered channel, without one Close returns.
EnterClose(h) ==
    /\ uc' = [uc EXCEPT ![h] = [NoCall EXCEPT !.m = UpdateFuncs, !.cur = TRUE]]
    /\ pc' = [pc EXCEPT ![h] = IF config.UpdateInterval # <<>> THEN "CloseSend" ELSE "CloseRet"]

\* Cache.Close called by a host thread
Close(h) ==
    /\ Call(h)
    /\ EnterClose(h)
    /\ op' = [op EXCEPT ![h] = "Close"]
    /\ UNCHANGED <<newErr, config, data, UpdateFuncs, tick, ctxDone, errCap, errs, crashed, ticks, cycles, late>>

\* Mutant of CloseHandoff: the signal is also taken in the middle of a cycle
CloseHandoff_MidCycle(h, t) ==
    /\ Alive /\ h \in Hosts /\ t \in Tasks
    /\ pc[h] = "CloseSend" /\ pc[t] \in {"select", "UC"}
    /\ pc' = [pc EXCEPT ![h] = "CloseReset", ![t] = "closed"]
    /\ tick' = [tick EXCEPT ![t] = FALSE]
    /\ late' = late \ {t}
    /\ UNCHANGED <<newErr, config, data, UpdateFuncs, op, uc, ctxDone, errCap, errs, crashed, calls, ticks, cycles>>

\* Mutant of CloseHandoff: the goroutine takes the signal and keeps looping
CloseHandoff_KeepLooping(h, t) ==
    /\ Alive /\ h \in Hosts /\ t \in Tasks
    /\ pc[h] = "CloseSend" /\ pc[t] = "select"
    /\ pc' = [pc EXCEPT ![h] = "CloseReset"]
    /\ UNCHANGED <<newErr, config, data, UpdateFuncs, op, uc, tick, ctxDone, errCap, errs, crashed, calls, ticks, cycles, late>>

\* dc.close <- struct{}{} meets case <-dc.close of a goroutine waiting in
\* its select: the goroutine returns (and its deferred ticker.Stop runs).
CloseHandoff(h, t) ==
    /\ Alive /\ h \in Hosts /\ t \in Tasks
    /\ pc[h] = "CloseSend" /\ pc[t] = "select"
    /\ pc' = [pc EXCEPT ![h] = "CloseReset", ![t] = "closed"]
    /\ tick' = [tick EXCEPT ![t] = FALSE]
    /\ late' = late \ {t}
    /\ UNCHANGED <<newErr, config, data, UpdateFuncs, op, uc, ctxDone, errCap, errs, crashed, calls, ticks, cycles>>

\* Mutant of ResetData: every key of the store is reset
ResetData_All(d, funcs) == StoreAll(d, DOMAIN d \cup DOMAIN funcs, Empty)

\* Mutant of ResetData: the values are left in the store
ResetData_Skip(d, funcs) == d

\* Mutant of ResetData: the keys of the registry are deleted from the store
ResetData_Delete(d, funcs) == [k \in DOMAIN d \ DOMAIN funcs |-> d[k]]

\* for key := range dc.UpdateFuncs { dc.data.Store(key, "") }
ResetData(d, funcs) == StoreAll(d, DOMAIN funcs, Empty)

\* dc.UpdateFuncs = make(map[string]func() (interface{}, error))
ResetFuncs(funcs) == EmptyMap

\* After the send: every key of the registry is stored as "" and the
\* registry is replaced by a new empty map; a range loop still running
\* keeps the old map object.
CloseReset(h) ==
    /\ Alive /\ h \in Hosts /\ pc[h] = "CloseReset"
    /\ data' = ResetData(data, UpdateFuncs)
    /\ UpdateFuncs' = ResetFuncs(UpdateFuncs)
    /\ uc' = Disturb([q \in Procs |-> [uc[q] EXCEPT !.cur = FALSE]], h)
    /\ pc' = [pc EXCEPT ![h] = "CloseRet"]
    /\ UNCHANGED <<newErr, config, op, tick, ctxDone, errCap, errs, crashed, calls, ticks, cycles, late>>

\* Close has returned to its caller (a host thread or StartAndManageUpdates,
\* which returns too).
CloseReturn(h) ==
    /\ Alive /\ h \in Hosts /\ pc[h] = "CloseRet"
    /\ pc' = [pc EXCEPT ![h] = "idle"]
    /\ op' = [op EXCEPT ![h] = ""]
    /\ uc' = [uc EXCEPT ![h] = NoCall]
    /\ UNCHANGED <<newErr, config, data, UpdateFuncs, tick, ctxDone, errCap, errs, crashed, calls, ticks, cycles, late>>

----------------------------------------------------------------------------
(* StartUpdates and its goroutine *)

\* Positions of a goroutine: "none" (not started), "select", "UC", "UCRet",
\* "SendErr", and returned at case <-dc.close ("closed") or at
\* case <-ctx.Done() ("cancelled").  A live goroutine owns a running ticker.
Live(t) == pc[t] \in {"select", "UC", "UCRet", "SendErr"}

\* The goroutine a go statement starts next
NextTask == CHOOSE t \in Tasks : pc[t] = "none" /\ \A u \in Tasks : pc[u] = "none" => t[2] <= u[2]

\* Mutant of DoStartUpdates: the interval is not checked
DoStartUpdates_NoIntervalCheck(h) ==
    IF Cardinality(DOMAIN UpdateFuncs) = 0
    THEN pc' = [pc EXCEPT ![h] = "StartRet"]
    ELSE /\ \E t \in Tasks : pc[t] = "none"
         /\ pc' = [pc EXCEPT ![h] = "StartRet", ![NextTask] = "select"]

\* Mutant of DoStartUpdates: the length of the registry is not checked
DoStartUpdates_NoEmptyCheck(h) ==
    IF config.UpdateInterval = <<>>
    THEN pc' = [pc EXCEPT ![h] = "StartRet"]
    ELSE /\ \E t \in Tasks : pc[t] = "none"
         /\ pc' = [pc EXCEPT ![h] = "StartRet", ![NextTask] = "select"]

\* Body of StartUpdates, run by host thread h, which is at its return
\* afterwards: nothing with an empty registry, nothing more without an
\* interval, else one new goroutine that creates its ticker and waits in
\* the select.
DoStartUpdates(h) ==
    IF Cardinality(DOMAIN UpdateFuncs) = 0 \/ config.UpdateInterval = <<>>
    THEN pc' = [pc EXCEPT ![h] = "StartRet"]
    ELSE /\ \E t \in Tasks : pc[t] = "none"
         /\ pc' = [pc EXCEPT ![h] = "StartRet", ![NextTask] = "select"]

\* Cache.StartUpdates called by a host thread
StartUpdates(h) ==
    /\ Call(h)
    /\ DoStartUpdates(h)
    /\ op' = [op EXCEPT ![h] = "StartUpdates"]
    /\ UNCHANGED <<newErr, config, data, UpdateFuncs, uc, tick, ctxDone, errCap, errs, crashed, ticks, cycles, late>>

\* StartUpdates has returned to its caller (a host thread or
\* StartAndManageUpdates, which returns too).
StartReturn(h) ==
    /\ Alive /\ h \in Hosts /\ pc[h] = "StartRet"
    /\ pc' = [pc EXCEPT ![h] = "idle"]
    /\ op' = [op EXCEPT ![h] = ""]
    /\ uc' = [uc EXCEPT ![h] = NoCall]
    /\ UNCHANGED <<newErr, config, data, UpdateFuncs, tick, ctxDone, errCap, errs, crashed, calls, ticks, cycles, late>>

\* The ticker of a live goroutine fires; ticker.C buffers one tick and
\* drops the rest.
Tick(t) ==
    /\ Alive /\ t \in Tasks
    /\ Live(t)
    /\ ~tick[t]
    /\ ticks < MaxTicks
    /\ ticks' = ticks + 1
    /\ tick' = [tick EXCEPT ![t] = TRUE]
    /\ late' = IF ctxDone THEN late \cup {t} ELSE late
    /\ UNCHANGED <<newErr, config, data, UpdateFuncs, pc, op, uc, ctxDone, errCap, errs, crashed, calls, cycles>>

\* Mutant of TaskTick: the tick stays in ticker.C
TaskTick_KeepTick(t) ==
    /\ Alive /\ t \in Tasks
    /\ pc[t] = "select" /\ tick[t]
    /\ late' = late \ {t}
    /\ cycles' = cycles + 1
    /\ EnterUpdateContent(t)
    /\ UNCHANGED <<newErr, config, data, UpdateFuncs, op, tick, ctxDone, errCap, errs, crashed, calls, ticks>>

\* select, case <-ticker.C: the goroutine enters UpdateContent
TaskTick(t) ==
    /\ Alive /\ t \in Tasks
    /\ pc[t] = "select" /\ tick[t]
    /\ tick' = [tick EXCEPT ![t] = FALSE]
    /\ late' = late \ {t}
    /\ cycles' = cycles + 1
    /\ EnterUpdateContent(t)
    /\ UNCHANGED <<newErr, config, data, UpdateFuncs, op, ctxDone, errCap, errs, crashed, calls, ticks>>

\* Mutant of TaskCtxDone: cancellation also does what Close does
TaskCtxDone_Reset(t) ==
    /\ Alive /\ t \in Tasks
    /\ pc[t] = "select" /\ ctxDone
    /\ pc' = [pc EXCEPT ![t] = "cancelled"]
    /\ tick' = [tick EXCEPT ![t] = FALSE]
    /\ data' = StoreAll(data, DOMAIN UpdateFuncs, Empty)
    /\ UpdateFuncs' = EmptyMap
    /\ late' = late \ {t}
    /\ UNCHANGED <<newErr, config, op, uc, ctxDone, errCap, errs, crashed, calls, ticks, cycles>>

\* select, case <-ctx.Done(): the goroutine returns
TaskCtxDone(t) ==
    /\ Alive /\ t \in Tasks
    /\ pc[t] = "select" /\ ctxDone
    /\ pc' = [pc EXCEPT ![t] = "cancelled"]
    /\ tick' = [tick EXCEPT ![t] = FALSE]
    /\ late' = late \ {t}
    /\ UNCHANGED <<newErr, config, data, UpdateFuncs, op, uc, ctxDone, errCap, errs, crashed, calls, ticks, cycles>>

\* The host cancels the governing context
Cancel ==
    /\ Alive /\ ~ctxDone
    /\ ctxDone' = TRUE
    /\ UNCHANGED <<newErr, config, data, UpdateFuncs, pc, op, uc, tick, errCap, errs, crashed, calls, ticks, cycles, late>>

----------------------------------------------------------------------------
(* StartAndManageUpdates and the returns of UpdateContent *)

\* Mutant of StartAndManageUpdates: StartUpdates is called first, the
\* synchronous UpdateContent after it
StartAndManageUpdates_StartFirst(h) ==
    /\ Call(h)
    /\ \E t \in Tasks : pc[t] = "none"
    /\ uc' = [uc EXCEPT ![h] = RangeBegin(UpdateFuncs)]
    /\ pc' = [pc EXCEPT ![h] = IF DOMAIN UpdateFuncs = {} THEN "UCRet" ELSE "UC",
                         ![NextTask] = IF DOMAIN UpdateFuncs = {} \/ config.UpdateInterval = <<>>
                                       THEN "none" ELSE "select"]
    /\ op' = [op EXCEPT ![h] = "StartAndManageUpdates"]
    /\ UNCHANGED <<newErr, config, data, UpdateFuncs, tick, ctxDone, errCap, errs, crashed, ticks, cycles, late>>

\* Cache.StartAndManageUpdates called by a host thread: step 1, the
\* synchronous UpdateContent
StartAndManageUpdates(h) ==
    /\ Call(h)
    /\ EnterUpdateContent(h)
    /\ op' = [op EXCEPT ![h] = "StartAndManageUpdates"]
    /\ UNCHANGED <<newErr, config, data, UpdateFuncs, tick, ctxDone, errCap, errs, crashed, ticks, cycles, late>>

\* UpdateContent returns to the host thread that called it
UpdateContentReturn(h) ==
    /\ Alive /\ h \in Hosts /\ pc[h] = "UCRet" /\ op[h] = "UpdateContent"
    /\ pc' = [pc EXCEPT ![h] = "idle"]
    /\ op' = [op EXCEPT ![h] = ""]
    /\ uc' = [uc EXCEPT ![h] = NoCall]
    /\ UNCHANGED <<newErr, config, data, UpdateFuncs, tick, ctxDone, errCap, errs, crashed, calls, ticks, cycles, late>>

\* UpdateContent returns to the goroutine: an error goes to the error
\* channel, then the loop selects again
TaskAfterUpdate(t) ==
    /\ Alive /\ t \in Tasks /\ pc[t] = "UCRet"
    /\ IF uc[t].err # NoErr
       THEN /\ pc' = [pc EXCEPT ![t] = "SendErr"]
            /\ UNCHANGED uc
       ELSE /\ pc' = [pc EXCEPT ![t] = "select"]
            /\ uc' = [uc EXCEPT ![t] = NoCall]
    /\ UNCHANGED <<newErr, config, data, UpdateFuncs, op, tick, ctxDone, errCap, errs, crashed, calls, ticks, cycles, late>>

\* UpdateContent returns to StartAndManageUpdates: an error goes to the
\* error channel, otherwise step 2 is StartUpdates
ManageAfterUpdate(h) ==
    /\ Alive /\ h \in Hosts /\ pc[h] = "UCRet" /\ op[h] = "StartAndManageUpdates"
    /\ IF uc[h].err # NoErr
       THEN /\ pc' = [pc EXCEPT ![h] = "SendErr"]
            /\ UNCHANGED <<op, uc>>
       ELSE /\ DoStartUpdates(h)
            /\ UNCHANGED <<op, uc>>
    /\ UNCHANGED <<newErr, config, data, UpdateFuncs, tick, ctxDone, errCap, errs, crashed, calls, ticks, cycles, late>>

----------------------------------------------------------------------------
(* The error channel *)

\* Mutant of AfterSend: the goroutine returns once it has reported an error
AfterSend_TaskReturns(p) ==
    IF p \in Tasks
    THEN /\ pc' = [pc EXCEPT ![p] = "closed"]
         /\ uc' = [uc EXCEPT ![p] = NoCall]
    ELSE EnterClose(p)

\* What the sender does once errorChannel <- err has completed: the
\* goroutine selects again, StartAndManageUpdates calls Close.
AfterSend(p) ==
    IF p \in Tasks
    THEN /\ pc' = [pc EXCEPT ![p] = "select"]
         /\ uc' = [uc EXCEPT ![p] = NoCall]
    ELSE EnterClose(p)

\* errorChannel <- err with room in the buffer
SendErr(p) ==
    /\ Alive /\ pc[p] = "SendErr"
    /\ Len(errs) < errCap
    /\ errs' = Append(errs, uc[p].err)
    /\ AfterSend(p)
    /\ UNCHANGED <<newErr, config, data, UpdateFuncs, op, tick, ctxDone, errCap, crashed, calls, ticks, cycles, late>>

\* The host receives from the error channel: the head of the buffer
RecvErr ==
    /\ Alive /\ errs # <<>>
    /\ errs' = Tail(errs)
    /\ UNCHANGED <<newErr, config, data, UpdateFuncs, pc, op, uc, tick, ctxDone, errCap, crashed, calls, ticks, cycles, late>>

\* The host receives from the error channel while a sender waits with no
\* room in the buffer: the value is handed over directly
RecvErrFrom(p) ==
    /\ Alive /\ pc[p] = "SendErr"
    /\ errs = <<>> /\ errCap = 0
    /\ AfterSend(p)
    /\ UNCHANGED <<newErr, config, data, UpdateFuncs, op, tick, ctxDone, errCap, errs, crashed, calls, ticks, cycles, late>>

----------------------------------------------------------------------------

Next ==
    \/ \E h \in Hosts, key \in Keys, value \in SetValues : Set(h, key, value)
    \/ \E h \in Hosts, key \in Keys, fn \in Funcs : AddUpdateFunc(h, key, fn)
    \/ \E h \in Hosts : UpdateContent(h)
    \/ \E p \in Procs : UpdateContentStep(p)
    \/ \E h \in Hosts : UpdateContentReturn(h)
    \/ \E h \in Hosts : Close(h)
    \/ \E h \in Hosts, t \in Tasks : CloseHandoff(h, t)
    \/ \E h \in Hosts : CloseReset(h)
    \/ \E h \in Hosts : CloseReturn(h)
    \/ \E h \in Hosts : StartUpdates(h)
    \/ \E h \in Hosts : StartReturn(h)
    \/ \E h \in Hosts : StartAndManageUpdates(h)
    \/ \E h \in Hosts : ManageAfterUpdate(h)
    \/ \E t \in Tasks : Tick(t)
    \/ \E t \in Tasks : TaskTick(t)
    \/ \E t \in Tasks : TaskAfterUpdate(t)
    \/ \E t \in Tasks : TaskCtxDone(t)
    \/ \E p \in Procs : SendErr(p)
    \/ \E p \in Procs : RecvErrFrom(p)
    \/ RecvErr
    \/ Cancel

Spec == Init /\ [][Next]_vars

----------------------------------------------------------------------------
(* Properties of UpdateContent *)

\* UpdateContent called by p has returned and p has not moved on; no other
\* thread has written the store or the registry during the call
Returned(p) == pc[p] = "UCRet" /\ uc[p].clean

\* The keys whose refresh function the call of p invoked, by outcome
Failed(p) == {k \in DOMAIN uc[p].res : uc[p].res[k].err # ""}
Succeeded(p) == {k \in DOMAIN uc[p].res : uc[p].res[k].err = ""}

\* Every function of the registry succeeds when it is called
AllSucceed == \A k \in DOMAIN UpdateFuncs : CallUpdateFunc(UpdateFuncs[k], k, data).err = ""

C1AtReturn ==
    \A p \in Procs :
        (Returned(p) /\ AllSucceed) =>
            /\ uc[p].err = NoErr
            /\ \A K \in DOMAIN UpdateFuncs :
                 /\ K \in DOMAIN uc[p].res
                 /\ Get(K) = <<uc[p].res[K].val, TRUE>>

C1Frame ==
    \A p \in Procs :
        UpdateContentStep(p) => \A k \in Keys \ DOMAIN uc[p].m : Get(k)' = Get(k)

\* C1: when UpdateContent runs with no concurrent writer and every
\* registered function succeeds, it returns no error and every key of the
\* registry then reads as the value its function returned in that call;
\* no iteration of the call changes a key that is not in the registry.
C1_UpdateContentStoresEveryResult == []C1AtReturn /\ [][C1Frame]_vars

\* A call whose functions all succeeded has returned undisturbed while the
\* store also holds a key that has no refresh function.
C1_Witness ==
    \E p \in Procs :
        /\ Returned(p) /\ AllSucceed
        /\ DOMAIN uc[p].res # {}
        /\ \E k \in DOMAIN data : k \notin DOMAIN UpdateFuncs


\* C2: when a refresh function fails the call returns an error that names
\* the failing key and carries the cause, and every key whose function ran
\* successfully before it in the cycle holds its newly written value.
C2_FailureNamesKeyNoRollback ==
    \A p \in Procs :
        (pc[p] = "UCRet" /\ Failed(p) # {}) =>
            /\ uc[p].err # NoErr
            /\ Len(uc[p].err) = 4
            /\ \E k \in Failed(p) :
                 /\ uc[p].err[2] = k
                 /\ uc[p].err[4] = uc[p].res[k].err
            /\ uc[p].clean =>
                 \A j \in Succeeded(p) : Get(j) = <<uc[p].res[j].val, TRUE>>

\* A call has returned its error after another key had been refreshed in
\* the same cycle.
C2_Witness ==
    \E p \in Procs :
        /\ Returned(p) /\ Failed(p) # {} /\ Succeeded(p) # {}
        /\ \E j \in Succeeded(p) : Get(j) = <<"v2", TRUE>>

C3AtReturn ==
    \A p \in Procs :
        (pc[p] \in {"UC", "UCRet", "SendErr"} /\ (uc[p].err # NoErr \/ Failed(p) # {})) =>
            /\ pc[p] # "UC"
            /\ uc[p].err # NoErr
            /\ Cardinality(Failed(p)) = 1
            /\ uc[p].todo \cap DOMAIN uc[p].res = {}

C3Step ==
    \A p \in Procs :
        /\ UpdateContentStep(p) =>
             \A k \in uc'[p].todo \cup Failed(p)' : Get(k)' = Get(k)
        /\ Failed(p) # {} =>
             \/ uc'[p].res = uc[p].res
             \/ uc'[p].res = EmptyMap

\* C3: UpdateContent stops at the first function that fails: the cycle has
\* exactly one failed invocation and one error, no function is invoked
\* after it, and the iterations of the cycle leave the failing key and the
\* keys not visited as they were.
C3_StopsAtFirstFailure == []C3AtReturn /\ [][C3Step]_vars

\* A call has returned an error while an entry of the registry was still
\* to be visited.
C3_Witness ==
    \E p \in Procs :
        /\ pc[p] = "UCRet" /\ uc[p].err # NoErr
        /\ uc[p].todo # {}
        /\ \E k \in uc[p].todo : k \in DOMAIN data

\* C4 as claimed: when one function fails, every other key of the registry
\* is still updated by that call, whatever the iteration order.
C4_OtherKeysStillUpdated ==
    \A p \in Procs :
        (Returned(p) /\ uc[p].err # NoErr) =>
            \A k \in DOMAIN uc[p].m \ Failed(p) :
                /\ k \in Succeeded(p)
                /\ Get(k) = <<uc[p].res[k].val, TRUE>>

C4AtReturn ==
    \A p \in Procs :
        (Returned(p) /\ uc[p].err # NoErr) =>
            \A k \in DOMAIN uc[p].m \ Failed(p) :
                IF k \in uc[p].todo
                THEN k \notin DOMAIN uc[p].res
                ELSE k \in Succeeded(p) /\ Get(k) = <<uc[p].res[k].val, TRUE>>

C4Step ==
    \A p \in Procs :
        (UpdateContentStep(p) /\ uc'[p].err # NoErr) =>
            /\ data' = data
            /\ uc'[p].todo \subseteq uc[p].todo

\* C4 as amended: when one function fails, another key of the registry is
\* updated by that call exactly when the iteration produced it before the
\* failing key; a key the iteration had not reached is not invoked, and the
\* failing iteration writes nothing.
C4_OtherKeysUpdatedOnlyIfVisitedFirst == []C4AtReturn /\ [][C4Step]_vars

\* A call has failed on one key with the other key of the registry not
\* reached, and so not updated.
C4_Witness ==
    \E p \in Procs :
        /\ Returned(p) /\ uc[p].err # NoErr
        /\ \E k \in DOMAIN uc[p].m \ Failed(p) : k \in uc[p].todo /\ k \notin DOMAIN data

----------------------------------------------------------------------------
(* Properties of Close and of cancellation *)

HasInterval == config.UpdateInterval # <<>>

C5AtReturn ==
    \A h \in Hosts :
        (pc[h] = "CloseRet" /\ HasInterval /\ uc[h].clean) =>
            /\ \A K \in DOMAIN uc[h].m : Get(K) = <<Empty, TRUE>>
            /\ UpdateFuncs = EmptyMap

C5Step ==
    \A h \in Hosts :
        (CloseReset(h) /\ uc[h].cur) =>
            /\ \A K \in DOMAIN uc[h].m : Get(K)' = <<Empty, TRUE>>
            /\ UpdateFuncs' = EmptyMap

\* C5: when Close returns on an engine with an interval and a running
\* goroutine, every key that was in the registry when Close was called
\* reads as ("", found) and the registry is empty (the registry not having
\* been replaced by another Close in between); the values stay so while no
\* other thread writes.
C5_CloseResetsRegisteredKeys == []C5AtReturn /\ [][C5Step]_vars

\* Close has returned after the goroutine took the stop signal, called
\* with both keys registered.
C5_Witness ==
    \E h \in Hosts :
        /\ pc[h] = "CloseRet" /\ HasInterval /\ uc[h].clean
        /\ DOMAIN uc[h].m = Keys
        /\ \E t \in Tasks : pc[t] = "closed"
        /\ ticks > 0

\* Close has returned to a host thread that has made no further call, on an
\* engine for which StartUpdates created one goroutine
CloseHasReturned ==
    /\ HasInterval
    /\ \E h \in Hosts : pc[h] = "CloseRet"
    /\ Cardinality({t \in Tasks : pc[t] # "none"}) = 1

\* A step of the timer, of the context or of a goroutine
BackgroundStep ==
    \/ Cancel
    \/ \E t \in Tasks : \/ Tick(t)
                        \/ TaskTick(t)
                        \/ TaskCtxDone(t)
                        \/ UpdateContentStep(t)
                        \/ TaskAfterUpdate(t)
                        \/ SendErr(t)
                        \/ RecvErrFrom(t)

C6Step ==
    (CloseHasReturned /\ BackgroundStep) =>
        /\ data' = data
        /\ UpdateFuncs' = UpdateFuncs
        /\ \A t \in Tasks : uc'[t].res = uc[t].res /\ ~Live(t)'

\* C6: once Close has returned on a running engine (one goroutine), no
\* tick and no cancellation that follows makes a refresh function run or a
\* store value change, and no goroutine is live to act on them.
C6_NoWritesAfterClose == [][C6Step]_vars

\* Close has returned and the context was cancelled, after a tick had been
\* delivered to the goroutine.
C6_Witness ==
    /\ CloseHasReturned /\ ctxDone /\ ticks > 0
    /\ \E h \in Hosts : pc[h] = "CloseRet" /\ DOMAIN uc[h].m # {}

\* C7 as claimed: Close on an engine with an interval never waits at the
\* stop handoff when no goroutine is running to take it (never started,
\* started with an empty registry, or stopped by an earlier Close).
C7_CloseWithoutTaskReturns ==
    \A h \in Hosts :
        pc[h] = "CloseSend" => \/ \E t \in Tasks : Live(t)
                               \/ \E t \in Tasks : pc[t] = "cancelled"

\* C8 as claimed: Close never waits at the stop handoff once the goroutine
\* has returned because the context was cancelled and nothing is left to
\* receive the signal.
C8_CloseAfterCancelReturns ==
    \A h \in Hosts :
        pc[h] = "CloseSend" =>
            ~ /\ ctxDone
              /\ \E t \in Tasks : pc[t] = "cancelled"
              /\ \A t \in Tasks : ~Live(t)

C9Never ==
    ~HasInterval => \A h \in Hosts : pc[h] \notin {"CloseSend", "CloseReset"}

C9Step ==
    (~HasInterval /\ \E h \in Hosts : pc[h] # "CloseRet" /\ pc'[h] = "CloseRet") =>
        /\ data' = data
        /\ UpdateFuncs' = UpdateFuncs

\* C9: without an interval Close is a no-op in every state: it never waits
\* at the handoff, and the step in which it runs changes no store value
\* and no entry of the registry.
C9_CloseWithoutIntervalIsNoOp == []C9Never /\ [][C9Step]_vars

\* Close has returned on an engine without interval whose registry and
\* store are not empty.
C9_Witness ==
    /\ ~HasInterval
    /\ \E h \in Hosts : pc[h] = "CloseRet" /\ op[h] = "Close"
    /\ DOMAIN UpdateFuncs = Keys
    /\ \E k \in DOMAIN data : data[k] # Empty

C10Step ==
    (Cancel \/ \E t \in Tasks : TaskCtxDone(t)) =>
        /\ data' = data
        /\ UpdateFuncs' = UpdateFuncs

\* C10: cancelling the context, and the goroutine's return on it, reset no
\* store value and remove no entry of the registry.
C10_CancelHasNoCloseEffects == [][C10Step]_vars

\* The goroutine has returned on cancellation; the registry still holds
\* both functions and a key still holds a value a refresh cycle wrote.
C10_Witness ==
    /\ \E t \in Tasks : pc[t] = "cancelled"
    /\ \A t \in Tasks : pc[t] # "closed"
    /\ DOMAIN UpdateFuncs = Keys
    /\ \E k \in DOMAIN data : data[k] \in {"v2", "v3"}

----------------------------------------------------------------------------
(* Properties of the goroutine's select and of construction *)

C11Step ==
    \A t \in Tasks :
        (t \in late /\ pc[t] = "select" /\ pc'[t] # "select") =>
            pc'[t] \in {"cancelled", "closed"}

\* C11 as claimed: once the context has been cancelled, a tick that fires
\* afterwards starts no UpdateContent call: a goroutine that finds such a
\* tick in ticker.C when it selects leaves the select only by returning.
C11_NoRefreshOnTickAfterCancel == [][C11Step]_vars

\* C12: NewCache returns the configuration error, and no engine on which a
\* method could be called, exactly when an interval is supplied and is less
\* than or equal to zero; otherwise the engine it returns has an empty
\* store and an empty registry, so that Get of any key is (nil, not found)
\* until the host makes its first call.
C12_NewCacheRejectsNonPositiveInterval ==
    /\ (newErr # "") <=> (config.UpdateInterval # <<>> /\ config.UpdateInterval[1] <= 0)
    /\ newErr # "" =>
          /\ calls = 0 /\ ticks = 0 /\ ~ctxDone
          /\ \A p \in Procs : pc[p] \in {"idle", "none"}
    /\ (newErr = "" /\ calls = 0) =>
          /\ DOMAIN data = {} /\ DOMAIN UpdateFuncs = {}
          /\ \A k \in Keys : Get(k) = <<Nil, FALSE>>
          /\ \A t \in Tasks : pc[t] = "none"

\* NewCache has been given an interval of zero and has returned its error.
C12_Witness ==
    /\ config.UpdateInterval = <<0>>
    /\ newErr = "cache update interval duration is less than or equal to 0"

----------------------------------------------------------------------------
(* Properties of StartUpdates and StartAndManageUpdates *)

\* StartUpdates, called by host thread h itself, is at its return
StartUpdatesReturned(h) == pc[h] = "StartRet" /\ op[h] = "StartUpdates"

C13AtReturn ==
    \A h \in Hosts :
        (StartUpdatesReturned(h) /\ ~HasInterval) =>
            /\ uc[h].res = EmptyMap /\ uc[h].err = NoErr
            /\ cycles = 0
            /\ \A t \in Tasks : pc[t] = "none"

C13Step ==
    \A h \in Hosts :
        (~HasInterval /\ pc[h] = "idle" /\ pc'[h] = "StartRet") =>
            /\ data' = data
            /\ uc' = uc
            /\ \A t \in Tasks : pc'[t] = pc[t]

C14Never ==
    /\ ~HasInterval => \A t \in Tasks : pc[t] = "none"
    /\ (\A t \in Tasks : pc[t] = "none") =>
          /\ ticks = 0 /\ cycles = 0
          /\ \A t \in Tasks : ~tick[t] /\ uc[t] = NoCall

C14Step ==
    /\ \A h \in Hosts :
         (/\ pc[h] # "StartRet" /\ pc'[h] = "StartRet"
          /\ (~HasInterval \/ DOMAIN UpdateFuncs = {})) =>
             /\ data' = data
             /\ tick' = tick
             /\ \A t \in Tasks : pc'[t] = pc[t]
    /\ ((\A t \in Tasks : pc[t] = "none") /\ BackgroundStep) => data' = data

ManageReturned(h) == pc[h] = "StartRet" /\ op[h] = "StartAndManageUpdates"

\* The goroutines whose ticker.C holds a tick
Pending == {t \in Tasks : tick[t]}

C15AtReturn ==
    \A h \in Hosts :
        (ManageReturned(h) /\ ~HasInterval /\ uc[h].clean) =>
            /\ uc[h].err = NoErr /\ uc[h].todo = {}
            /\ DOMAIN uc[h].res = DOMAIN UpdateFuncs
            /\ \A K \in DOMAIN UpdateFuncs : Get(K) = <<uc[h].res[K].val, TRUE>>
            /\ \A t \in Tasks : pc[t] = "none"
            /\ ticks = 0

C15Step ==
    /\ \A h \in Hosts :
         (op[h] = "StartAndManageUpdates" /\ UpdateContentStep(h)) =>
             /\ uc'[h].todo \cap DOMAIN uc'[h].res = {}
             /\ Cardinality(DOMAIN uc'[h].res) = Cardinality(DOMAIN uc[h].res) + 1
    /\ (~HasInterval /\ BackgroundStep) => data' = data

\* C15: on an engine without interval whose registered functions succeed,
\* StartAndManageUpdates has at its return invoked every function of the
\* registry, each in one iteration of its own, and every key holds the
\* result; no goroutine exists, no tick is delivered, and no step of the
\* timer or of the context changes a store value afterwards.
C15_ManageWithoutIntervalRefreshesOnce == []C15AtReturn /\ [][C15Step]_vars

\* StartAndManageUpdates has returned on an engine without interval after
\* refreshing both keys, one of them from the value the host had set.
C15_Witness ==
    \E h \in Hosts :
        /\ ManageReturned(h) /\ ~HasInterval /\ uc[h].clean
        /\ DOMAIN UpdateFuncs = Keys
        /\ \E k \in Keys : Get(k) = <<"v2", TRUE>>

C16Always ==
    /\ cycles + Cardinality(Pending) <= ticks
    /\ (\A t \in Tasks : pc[t] = "none" \/ Live(t)) => ticks = cycles + Cardinality(Pending)
    /\ ticks = 0 => \A t \in Tasks : pc[t] \notin {"UC", "UCRet", "SendErr"} /\ uc[t] = NoCall
    /\ \A t \in Tasks :
         (pc[t] = "UCRet" /\ uc[t].err = NoErr) =>
             uc[t].todo = {} /\ DOMAIN uc[t].res = DOMAIN uc[t].m

C16Step ==
    /\ \A h \in Hosts :
         (/\ HasInterval /\ DOMAIN UpdateFuncs # {}
          /\ pc[h] = "idle" /\ pc'[h] = "StartRet") =>
             /\ data' = data /\ uc' = uc /\ cycles' = cycles /\ tick' = tick
             /\ Cardinality({t \in Tasks : pc'[t] # pc[t]}) = 1
             /\ \A t \in Tasks : pc'[t] # pc[t] => pc[t] = "none" /\ pc'[t] = "select"
    /\ \A t \in Tasks :
         (pc[t] \notin {"UC", "UCRet"} /\ pc'[t] \in {"UC", "UCRet"}) =>
             /\ pc[t] = "select"
             /\ tick[t] /\ ~tick'[t]
             /\ cycles' = cycles + 1
             /\ uc'[t].res = EmptyMap

\* C16: on an engine with an interval and a non-empty registry StartUpdates
\* refreshes nothing at the call: it changes no store value, invokes no
\* function and creates one goroutine, which begins no UpdateContent before
\* the first tick.  A goroutine begins UpdateContent only by taking one
\* tick out of ticker.C, so while no goroutine has returned the calls begun
\* are as many as the ticks delivered less those still waiting in ticker.C,
\* and a call that returns no error has invoked every function once.
C16_StartUpdatesRefreshesOncePerTick == []C16Always /\ [][C16Step]_vars

\* After StartUpdates with both keys registered, two ticks have been
\* delivered and the second refresh cycle has returned without error.
C16_Witness ==
    \E t \in Tasks :
        /\ HasInterval /\ ticks = 2 /\ cycles = 2
        /\ \A u \in Tasks \ {t} : pc[u] = "none"
        /\ pc[t] = "UCRet" /\ uc[t].err = NoErr
        /\ DOMAIN uc[t].res = Keys
        /\ \A h \in Hosts : pc[h] = "idle"

C17AtReturn ==
    \A h \in Hosts :
        (ManageReturned(h) /\ HasInterval /\ uc[h].clean) =>
            /\ uc[h].err = NoErr /\ uc[h].todo = {}
            /\ \A K \in DOMAIN UpdateFuncs :
                 /\ K \in DOMAIN uc[h].res
                 /\ Get(K) = <<uc[h].res[K].val, TRUE>>

C17Step ==
    /\ \A h \in Hosts :
         (/\ op'[h] = "StartAndManageUpdates" /\ pc'[h] # pc[h]
          /\ \E t \in Tasks : pc[t] = "none" /\ pc'[t] # "none") =>
             /\ pc[h] = "UCRet" /\ pc'[h] = "StartRet"
             /\ uc[h].err = NoErr /\ uc[h].todo = {}
             /\ data' = data /\ cycles' = cycles
             /\ \A t \in Tasks : pc'[t] # pc[t] => pc'[t] = "select" /\ ~tick'[t]
    /\ \A t \in Tasks :
         (pc[t] = "select" /\ tick[t] /\ ~tick'[t] /\ Live(t)') =>
             /\ pc'[t] \in {"UC", "UCRet"}
             /\ uc'[t] = RangeBegin(UpdateFuncs)
             /\ cycles' = cycles + 1

\* C17: on an engine with an interval StartAndManageUpdates creates its
\* goroutine only once its synchronous UpdateContent has returned without
\* error, so no tick is processed before; at its return every key of the
\* registry holds the result of that call (no other thread having written
\* since); afterwards a goroutine that takes a tick begins one UpdateContent
\* over the registry.
C17_ManageRefreshesBeforeFirstTick == []C17AtReturn /\ [][C17Step]_vars

\* StartAndManageUpdates has returned with both keys refreshed; its
\* goroutine waits in the select and the first tick has just been delivered.
C17_Witness ==
    \E h \in Hosts :
        /\ ManageReturned(h) /\ HasInterval /\ uc[h].clean
        /\ DOMAIN uc[h].res = Keys
        /\ \E t \in Tasks : pc[t] = "select" /\ tick[t]
        /\ cycles = 0

----------------------------------------------------------------------------
(* Properties of error reporting *)

\* C18 as claimed: when the synchronous UpdateContent of
\* StartAndManageUpdates fails on an engine with an interval, the Close it
\* calls resets the engine and returns: it never waits at the stop handoff
\* with no goroutine running to take the signal.
C18_FailedManageClosesAndReturns ==
    \A h \in Hosts :
        (HasInterval /\ op[h] = "StartAndManageUpdates" /\ pc[h] = "CloseSend") =>
            \E t \in Tasks : Live(t)

C19Always ==
    \A t \in Tasks :
        pc[t] = "SendErr" => uc[t].err # NoErr /\ Cardinality(Failed(t)) = 1

C19Step ==
    /\ \A t \in Tasks :
         /\ (pc[t] = "UCRet" /\ pc'[t] # "UCRet") =>
                /\ errs' = errs
                /\ pc'[t] = IF uc[t].err = NoErr THEN "select" ELSE "SendErr"
         /\ (pc[t] # "SendErr" /\ pc'[t] = "SendErr") => pc[t] = "UCRet"
         /\ (pc[t] = "SendErr" /\ pc'[t] # "SendErr") =>
                /\ pc'[t] = "select"
                /\ \/ errs' = Append(errs, uc[t].err)
                   \/ errCap = 0 /\ errs' = errs
    /\ Len(errs') > Len(errs) =>
         \E p \in Procs : /\ pc[p] = "SendErr" /\ pc'[p] # "SendErr"
                           /\ errs' = Append(errs, uc[p].err)

\* C19: a goroutine whose UpdateContent returned an error sends that one
\* error to the error channel and nothing for a cycle without error; the
\* channel gains a value only by such a send; and once the send has
\* completed the goroutine is back in its select, where a later tick makes
\* it run UpdateContent again.
C19_OneErrorPerFailedCycle == []C19Always /\ [][C19Step]_vars

\* The only registered function fails; the error of the first cycle has
\* been received by the host and the goroutine is running its second cycle.
C19_Witness ==
    \E t \in Tasks :
        /\ pc[t] = "UC" /\ cycles = 2 /\ calls = 2
        /\ \A u \in Tasks \ {t} : pc[u] = "none"
        /\ DOMAIN UpdateFuncs = {"a"} /\ UpdateFuncs["a"] = "bad"
        /\ errs = <<>>

\* The goroutine waits at errorChannel <- err and the channel has no room
Parked(t) == pc[t] = "SendErr" /\ Len(errs) >= errCap

\* C20 as claimed: an error nobody receives does not keep the goroutines
\* from reacting to Close: Close never waits at the stop handoff while
\* every goroutine still running is waiting at its send to the error
\* channel.
C20_UndrainedSinkDoesNotBlockClose ==
    \A h \in Hosts :
        (pc[h] = "CloseSend" /\ \E t \in Tasks : Live(t)) =>
            \E t \in Tasks : Live(t) /\ ~Parked(t)

----------------------------------------------------------------------------
(* Properties of the store *)

\* The step writes key k of the store: a Set of k, an iteration of
\* UpdateContent that stores the result for k, or the reset of Close with
\* k in the registry
WritesKey(k) ==
    \/ \E h \in Hosts, v \in SetValues : Set(h, k, v)
    \/ \E p \in Procs : /\ UpdateContentStep(p)
                         /\ k \in uc[p].todo
                         /\ k \in Succeeded(p)' \ DOMAIN uc[p].res
    \/ \E h \in Hosts : CloseReset(h) /\ k \in DOMAIN UpdateFuncs

C21Always ==
    /\ calls = 0 => \A k \in Keys : Get(k) = <<Nil, FALSE>>
    /\ \A k \in Keys : Get(k)[2] => Get(k)[1] \in Values

C21Step ==
    \A k \in Keys :
        /\ Get(k)[2] => Get(k)'[2]
        /\ (~Get(k)[2] /\ Get(k)'[2]) => WritesKey(k)
        /\ WritesKey(k) => Get(k)'[2]
        /\ (\E h \in Hosts : CloseReset(h) /\ k \in DOMAIN UpdateFuncs) =>
               Get(k)' = <<Empty, TRUE>>

\* C21: Get(K) is not-found exactly as long as K has not been written: it
\* is not-found for every key after construction, a key becomes found only
\* in a step that writes it (Set, a refresh cycle, the reset of Close),
\* every such write makes it found, and no step makes a found key
\* not-found again; the reset of Close leaves its keys found with "".
C21_FoundExactlyOnceWritten == []C21Always /\ [][C21Step]_vars

\* Close has returned: the key that was registered is found with the empty
\* value, the key nobody wrote is not found.
C21_Witness ==
    /\ HasInterval
    /\ \E h \in Hosts : pc[h] = "CloseRet" /\ DOMAIN uc[h].m = {"a"}
    /\ Get("a") = <<Empty, TRUE>>
    /\ Get("b") = <<Nil, FALSE>>
    /\ cycles > 0

\* The step is one write of key k that stores the pair got
WriteOf(k, got) ==
    \/ \E h \in Hosts, v \in SetValues : Set(h, k, v) /\ got = <<v, TRUE>>
    \/ \E p \in Procs : /\ UpdateContentStep(p)
                         /\ k \in uc[p].todo /\ k \in Succeeded(p)'
                         /\ got = <<uc'[p].res[k].val, TRUE>>
    \/ \E h \in Hosts : /\ CloseReset(h) /\ k \in DOMAIN UpdateFuncs
                         /\ got = <<Empty, TRUE>>

C22Step ==
    /\ \A h \in Hosts, k \in Keys, v \in SetValues :
         Set(h, k, v) => /\ Get(k)' = <<v, TRUE>>
                         /\ \A j \in Keys \ {k} : Get(j)' = Get(j)
    /\ \A k \in Keys : Get(k)' # Get(k) => WriteOf(k, Get(k)')
    /\ \A p \in Procs :
         UpdateContentStep(p) => Cardinality({k \in Keys : Get(k)' # Get(k)}) <= 1

\* C22: Load and Store of the sync.Map being atomic, what Get(K) returns
\* changes only in a step that is one write of K and then to exactly the
\* value of that write: after Set(K, v) has returned Get(K) is (v, found)
\* until a later write of K, and while a refresh cycle runs Get(K) is what K
\* held before the cycle's write of K or what that write stored; an
\* iteration of the cycle writes one key, and Get is defined in every state
\* (it waits for nothing).
C22_ReadsSeeWholeWrites == [][C22Step]_vars

\* A goroutine is in the middle of a refresh cycle: it has stored the new
\* value of one key, the other key still reads as the value the host set.
C22_Witness ==
    \E t \in Tasks, k \in Keys, j \in Keys :
        /\ pc[t] = "UC" /\ uc[t].todo = {j} /\ k \in Succeeded(t)
        /\ Get(k) = <<uc[t].res[k].val, TRUE>>
        /\ Get(j) = <<"v1", TRUE>>

----------------------------------------------------------------------------
(* Properties of the registry and of the goroutine's lifecycle *)

C23Step ==
    \A h \in Hosts, key \in Keys, fn \in Funcs :
        AddUpdateFunc(h, key, fn) =>
            /\ DOMAIN UpdateFuncs' = DOMAIN UpdateFuncs \cup {key}
            /\ UpdateFuncs'[key] = fn
            /\ \A j \in DOMAIN UpdateFuncs \ {key} : UpdateFuncs'[j] = UpdateFuncs[j]
            /\ data' = data
            /\ pc' = pc /\ cycles' = cycles
            /\ \A p \in Procs : uc'[p].res = uc[p].res
            /\ Racing(h) = {} => ~crashed' /\ \A p \in Procs : uc'[p].m = uc[p].m

\* C23: AddUpdateFunc(key, fn) makes fn the function of key, whether key
\* had one or not, and leaves the function of every other key, every store
\* value and every thread's position as they were; no refresh function is
\* invoked.  With no range loop on the registry at that moment nothing
\* else happens either.
C23_AddUpdateFuncSetsOneEntry == [][C23Step]_vars

\* Three calls have been made, the registry holds a function for each key,
\* the failing one for "a", and "a" still reads as the value the host set.
C23_Witness ==
    /\ calls = 3 /\ DOMAIN UpdateFuncs = Keys
    /\ UpdateFuncs["a"] = "bad" /\ UpdateFuncs["b"] = "next"
    /\ Get("a") = <<"v1", TRUE>>
    /\ \A p \in Procs : pc[p] \in {"idle", "none"}

\* C24 as claimed: at most one goroutine of StartUpdates is running in
\* every reachable state.
C24_AtMostOneBackgroundTask == Cardinality({t \in Tasks : Live(t)}) <= 1

C25Step ==
    \A h \in Hosts, t \in Tasks :
        (/\ pc[h] # "StartRet" /\ pc'[h] = "StartRet"
         /\ pc[t] = "none" /\ pc'[t] = "select") =>
            \A u \in Tasks : pc[u] # "closed"

\* C25 as claimed: once Close has stopped the goroutine of an engine, no
\* later StartUpdates or StartAndManageUpdates creates a goroutine again.
C25_ClosedEngineIsNotRestarted == [][C25Step]_vars

\* C26: AddUpdateFunc takes no lock: a host thread that is in no call can
\* always make the call, also while the range loop of a goroutine's
\* UpdateContent is on the registry, and then the write can go through
\* beside the loop or be detected by the runtime.
C26_AddUpdateFuncRacesWithRefresh ==
    \A h \in Hosts :
        (Alive /\ pc[h] = "idle" /\ calls < MaxCalls) =>
            /\ \A key \in Keys, fn \in Funcs : ENABLED AddUpdateFunc(h, key, fn)
            /\ (\E t \in Tasks : t \in Racing(h)) =>
                  /\ ENABLED (AddUpdateFunc(h, "a", "next") /\ crashed')
                  /\ ENABLED (AddUpdateFunc(h, "a", "next") /\ ~crashed')

\* AddUpdateFunc has written the registry while the range loop of a
\* goroutine was on it, and the runtime has detected it.
C26_Witness ==
    /\ crashed
    /\ \E t \in Tasks : pc[t] = "UC" /\ uc[t].cur /\ uc[t].todo # {}

----------------------------------------------------------------------------
(* Properties of Close beside a refresh cycle and of a failed start *)

\* StartUpdates has created one goroutine in this run
OneTask == Cardinality({t \in Tasks : pc[t] # "none"}) = 1

C27Step ==
    /\ \A h \in Hosts :
         (pc[h] = "CloseSend" /\ pc'[h] # "CloseSend") =>
             /\ pc'[h] = "CloseReset"
             /\ data' = data /\ UpdateFuncs' = UpdateFuncs
             /\ \E t \in Tasks : pc[t] = "select" /\ pc'[t] = "closed" /\ uc[t] = NoCall
    /\ \A h \in Hosts :
         (OneTask /\ pc[h] = "CloseReset" /\ pc'[h] = "CloseRet") =>
             /\ \A t \in Tasks : ~Live(t)
             /\ \A K \in DOMAIN UpdateFuncs : Get(K)' = <<Empty, TRUE>>
    /\ (OneTask /\ \E h \in Hosts : pc[h] \in {"CloseReset", "CloseRet"}) =>
         \A t \in Tasks : ~UpdateContentStep(t) /\ uc'[t].res = uc[t].res

\* C27: Close waits at the stop handoff while a cycle of the goroutine is
\* in flight and resets nothing meanwhile: the signal is taken only by a
\* goroutine that is in its select, with no call of UpdateContent open, so
\* (one goroutine having been started) every write of the cycle precedes
\* the reset, the reset leaves every registered key as "" and no goroutine
\* writes after it.
C27_CloseResetsAfterCycleInFlight == [][C27Step]_vars

\* Close has returned; while it waited at the handoff the goroutine's cycle
\* wrote the store, and the registered keys now read as "".
C27_Witness ==
    \E h \in Hosts :
        /\ HasInterval /\ OneTask /\ cycles > 0
        /\ pc[h] = "CloseRet" /\ op[h] = "Close" /\ ~uc[h].clean
        /\ DOMAIN uc[h].m # {}
        /\ \A K \in DOMAIN uc[h].m : Get(K) = <<Empty, TRUE>>

C28Step ==
    \A h \in Hosts :
        (/\ \/ pc[h] \in {"CloseSend", "CloseReset", "CloseRet"}
            \/ pc'[h] \in {"CloseSend", "CloseReset", "CloseRet"}
         /\ pc'[h] # pc[h]) =>
            \A k \in Keys \ DOMAIN UpdateFuncs : Get(k)' = Get(k)

\* C28: no step of Close, from the call to the return, changes what Get
\* returns for a key that is not in the registry: a key written with Set
\* and never registered keeps its value across Close.
C28_CloseKeepsUnregisteredKeys == [][C28Step]_vars

\* Close has returned after the goroutine took the stop signal: the
\* registered key reads as "", the key the host had set and not registered
\* still holds its value.
C28_Witness ==
    \E h \in Hosts :
        /\ HasInterval /\ pc[h] = "CloseRet" /\ DOMAIN uc[h].m = {"a"}
        /\ \E t \in Tasks : pc[t] = "closed"
        /\ Get("a") = <<Empty, TRUE>>
        /\ Get("b") = <<"v1", TRUE>>

\* StartAndManageUpdates on an engine without interval is past its failed
\* UpdateContent: at the send of the error or at the return of Close
FailedManage(h) ==
    /\ ~HasInterval /\ op[h] = "StartAndManageUpdates"
    /\ pc[h] \in {"SendErr", "CloseRet"}

C29Always ==
    \A h \in Hosts :
        FailedManage(h) =>
            /\ \A t \in Tasks : pc[t] = "none"
            /\ uc[h].clean => UpdateFuncs = uc[h].m /\ DOMAIN UpdateFuncs # {}
            /\ pc[h] = "SendErr" =>
                  /\ uc[h].err # NoErr
                  /\ uc[h].clean =>
                        \A j \in Succeeded(h) : Get(j) = <<uc[h].res[j].val, TRUE>>

C29Step ==
    \A h \in Hosts :
        (FailedManage(h) /\ pc'[h] # pc[h]) =>
            /\ data' = data /\ UpdateFuncs' = UpdateFuncs
            /\ IF pc[h] = "SendErr"
               THEN /\ pc'[h] = "CloseRet"
                    /\ \/ errs' = Append(errs, uc[h].err)
                       \/ errCap = 0 /\ errs' = errs
               ELSE pc'[h] = "idle" /\ errs' = errs

\* C29: on an engine without interval, when the UpdateContent of
\* StartAndManageUpdates has failed, the call sends that error to the error
\* channel, then Close does nothing and the call returns: from the failure
\* to the return no store value and no entry of the registry changes, so
\* the keys refreshed before the failure hold their new values and the
\* registry holds all its functions; no goroutine exists.
C29_FailedManageWithoutIntervalResetsNothing == []C29Always /\ [][C29Step]_vars

\* The call is at the return of Close after its error was sent; one key
\* holds the value the cycle wrote, the key of the failing function the
\* value the host had set, and both functions are still registered.
C29_Witness ==
    \E h \in Hosts, k \in Keys, j \in Keys :
        /\ FailedManage(h) /\ pc[h] = "CloseRet"
        /\ DOMAIN UpdateFuncs = Keys /\ UpdateFuncs[j] = "bad"
        /\ Get(k)[2] /\ Get(k)[1] \in {"v2", "v3"}
        /\ Get(j) = <<"v1", TRUE>>

====
